---- MODULE Spec2Model ----
(***************************************************************************)
(* Model of the vertex-shader implementation of GrCCCoverageProcessor      *)
(* (src/src/gpu/ccpr/GrCCCoverageProcessor_VSImpl.cpp): the vertex-data    *)
(* codec, the static vertex and index tables, the winding computation of   *)
(* onEmitCode, the per-vertex evaluator emitVertexPosition, and the buffer *)
(* set-up of initVS with the mesh of appendVSMesh.                         *)
(*                                                                         *)
(* The module holds five state machines over disjoint variables; each has  *)
(* its own specification, and a specification leaves the variables of the  *)
(* other machines at their idle value:                                     *)
(*   SpecCodec  pack_vertex_data followed by the evaluator's decoding      *)
(*   SpecIA     the index fetch and primitive assembly of one instance     *)
(*   SpecWind   the winding computation of onEmitCode                      *)
(*   SpecVS     one vertex-shader invocation (emitVertexPosition)          *)
(*   Spec       processors running initVS / appendVSMesh on shared         *)
(*              resource providers                                         *)
(***************************************************************************)
EXTENDS Integers, Naturals, Sequences, FiniteSets, Bags, TLC

VARIABLES codec, ia, wr, vs, procs, cache, made, requests

vars == <<codec, ia, wr, vs, procs, cache, made, requests>>

Idle == [stage |-> "idle"]

(***************************************************************************)
(* Integer bit operations, as C++ and GLSL compute them on int32 values in *)
(* two's complement.  Every word of the program is below 2^13 in absolute  *)
(* value, so no operation here reaches the width of an int32.              *)
(***************************************************************************)
Pow2(k) == 2 ^ k

RECURSIVE BitAnd(_, _)
BitAnd(a, b) ==
    IF a = 0 \/ b = 0 THEN 0
    ELSE IF a = -1 THEN b
    ELSE IF b = -1 THEN a
    ELSE ((a % 2) * (b % 2)) + 2 * BitAnd(a \div 2, b \div 2)

RECURSIVE BitOr(_, _)
BitOr(a, b) ==
    IF a = 0 THEN b
    ELSE IF b = 0 THEN a
    ELSE IF a = -1 \/ b = -1 THEN -1
    ELSE (IF (a % 2) + (b % 2) > 0 THEN 1 ELSE 0) + 2 * BitOr(a \div 2, b \div 2)

RECURSIVE BitXor(_, _)
BitXor(a, b) ==
    IF a = 0 THEN b
    ELSE IF b = 0 THEN a
    ELSE IF a = -1 THEN (0 - b) - 1
    ELSE IF b = -1 THEN (0 - a) - 1
    ELSE (((a % 2) + (b % 2)) % 2) + 2 * BitXor(a \div 2, b \div 2)

\* a << k.
Shl(a, k) == a * Pow2(k)
\* a >> k: the arithmetic shift (\div rounds down).
Shr(a, k) == a \div Pow2(k)

(***************************************************************************)
(* The vertex-data codec.                                                  *)
(***************************************************************************)
kVertexData_LeftNeighborIdShift == 10
kVertexData_RightNeighborIdShift == 8
kVertexData_BloatIdxShift == 6
kVertexData_InvertNegativeCoverageBit == Shl(1, 5)
kVertexData_IsCornerBit == Shl(1, 4)
kVertexData_IsEdgeBit == Shl(1, 3)
kVertexData_IsHullBit == Shl(1, 2)

\* pack_vertex_data with the shift of rightNeighborID one too small: the field
\* then shares a bit with bloatIdx.
pack_vertex_data_overlap(leftNeighborID, rightNeighborID, bloatIdx, cornerID, extraData) ==
    BitOr(BitOr(BitOr(BitOr(Shl(leftNeighborID, kVertexData_LeftNeighborIdShift),
                            Shl(rightNeighborID, kVertexData_RightNeighborIdShift - 1)),
                      Shl(bloatIdx, kVertexData_BloatIdxShift)),
                cornerID),
          extraData)

pack_vertex_data(leftNeighborID, rightNeighborID, bloatIdx, cornerID, extraData) ==
    BitOr(BitOr(BitOr(BitOr(Shl(leftNeighborID, kVertexData_LeftNeighborIdShift),
                            Shl(rightNeighborID, kVertexData_RightNeighborIdShift)),
                      Shl(bloatIdx, kVertexData_BloatIdxShift)),
                cornerID),
          extraData)

hull_vertex_data(cornerID, bloatIdx, n) ==
    pack_vertex_data((cornerID + n - 1) % n, (cornerID + 1) % n, bloatIdx, cornerID,
                     kVertexData_IsHullBit)

\* edge_vertex_data dropping its extraData.
edge_vertex_data_NoExtra(leftID, rightID, bloatIdx, extraData) ==
    pack_vertex_data(leftID, leftID, bloatIdx, rightID, kVertexData_IsEdgeBit)

edge_vertex_data(leftID, rightID, bloatIdx, extraData) ==
    pack_vertex_data(leftID, leftID, bloatIdx, rightID, BitOr(kVertexData_IsEdgeBit, extraData))

triangle_corner_vertex_data(cornerID, bloatIdx) ==
    pack_vertex_data((cornerID + 2) % 3, (cornerID + 1) % 3, bloatIdx, cornerID,
                     kVertexData_IsCornerBit)

\* The evaluator's reads of a vertex-data word (emitVertexPosition).
CornerIdOf(w) == BitAnd(w, 3)
LeftIdOf(w) == Shr(w, kVertexData_LeftNeighborIdShift)
RightIdOf(w) == BitAnd(Shr(w, kVertexData_RightNeighborIdShift), 3)
BloatIdxOf(w) == BitAnd(Shr(w, kVertexData_BloatIdxShift), 3)
HasBit(w, bit) == BitAnd(w, bit) # 0

\* The mask of the "edge OR corner" test.
kEdgeOrCornerBits == BitOr(kVertexData_IsEdgeBit, kVertexData_IsCornerBit)

\* The four flag bits, bits 2..5 of the word.
FlagBits == {kVertexData_IsHullBit, kVertexData_IsEdgeBit, kVertexData_IsCornerBit,
             kVertexData_InvertNegativeCoverageBit}

RECURSIVE SumOf(_)
SumOf(S) == IF S = {} THEN 0 ELSE LET x == CHOOSE y \in S : TRUE IN x + SumOf(S \ {x})

\* Every value extraData can take: the OR of a subset of the flag bits.
FlagWords == {SumOf(S) : S \in SUBSET FlagBits}

\* Bits 2..5 of a word.
FlagMask == SumOf(FlagBits)

FieldIds == 0 .. 3

(***************************************************************************)
(* The static tables.                                                      *)
(***************************************************************************)
kTriangleVertices == <<
    hull_vertex_data(0, 0, 3), hull_vertex_data(0, 1, 3), hull_vertex_data(0, 2, 3),
    hull_vertex_data(1, 0, 3), hull_vertex_data(1, 1, 3), hull_vertex_data(1, 2, 3),
    hull_vertex_data(2, 0, 3), hull_vertex_data(2, 1, 3), hull_vertex_data(2, 2, 3),

    edge_vertex_data(0, 1, 0, 0), edge_vertex_data(0, 1, 1, 0), edge_vertex_data(0, 1, 2, 0),
    edge_vertex_data(1, 0, 0, kVertexData_InvertNegativeCoverageBit),
    edge_vertex_data(1, 0, 1, kVertexData_InvertNegativeCoverageBit),
    edge_vertex_data(1, 0, 2, kVertexData_InvertNegativeCoverageBit),

    edge_vertex_data(1, 2, 0, 0), edge_vertex_data(1, 2, 1, 0), edge_vertex_data(1, 2, 2, 0),
    edge_vertex_data(2, 1, 0, kVertexData_InvertNegativeCoverageBit),
    edge_vertex_data(2, 1, 1, kVertexData_InvertNegativeCoverageBit),
    edge_vertex_data(2, 1, 2, kVertexData_InvertNegativeCoverageBit),

    edge_vertex_data(2, 0, 0, 0), edge_vertex_data(2, 0, 1, 0), edge_vertex_data(2, 0, 2, 0),
    edge_vertex_data(0, 2, 0, kVertexData_InvertNegativeCoverageBit),
    edge_vertex_data(0, 2, 1, kVertexData_InvertNegativeCoverageBit),
    edge_vertex_data(0, 2, 2, kVertexData_InvertNegativeCoverageBit),

    triangle_corner_vertex_data(0, 0), triangle_corner_vertex_data(0, 1),
    triangle_corner_vertex_data(0, 2), triangle_corner_vertex_data(0, 3),

    triangle_corner_vertex_data(1, 0), triangle_corner_vertex_data(1, 1),
    triangle_corner_vertex_data(1, 2), triangle_corner_vertex_data(1, 3),

    triangle_corner_vertex_data(2, 0), triangle_corner_vertex_data(2, 1),
    triangle_corner_vertex_data(2, 2), triangle_corner_vertex_data(2, 3) >>

kRestartStrip == 65535

kTriangleIndicesAsStrips == <<
    1, 2, 0, 3, 8, kRestartStrip,
    4, 5, 3, 6, 8, 7, kRestartStrip,
    10, 9, 11, 14, 12, 13, kRestartStrip,
    16, 15, 17, 20, 18, 19, kRestartStrip,
    22, 21, 23, 26, 24, 25, kRestartStrip,
    27, 28, 30, 29, kRestartStrip,
    31, 32, 34, 33, kRestartStrip,
    35, 36, 38, 37 >>

kTriangleIndicesAsTris == <<
    1, 2, 0,
    2, 3, 0,
    0, 3, 8,

    4, 5, 3,
    5, 6, 3,
    3, 6, 8,
    6, 7, 8,

    10, 9, 11,
    9, 14, 11,
    11, 14, 12,
    14, 13, 12,

    16, 15, 17,
    15, 20, 17,
    17, 20, 18,
    20, 19, 18,

    22, 21, 23,
    21, 26, 23,
    23, 26, 24,
    26, 25, 24,

    27, 28, 30,
    28, 29, 30,

    31, 32, 34,
    32, 33, 34,

    35, 36, 38,
    36, 37, 38 >>

kHull4AndEdgeVertices == <<
    hull_vertex_data(0, 0, 4), hull_vertex_data(0, 1, 4), hull_vertex_data(0, 2, 4),
    hull_vertex_data(1, 0, 4), hull_vertex_data(1, 1, 4), hull_vertex_data(1, 2, 4),
    hull_vertex_data(2, 0, 4), hull_vertex_data(2, 1, 4), hull_vertex_data(2, 2, 4),
    hull_vertex_data(3, 0, 4), hull_vertex_data(3, 1, 4), hull_vertex_data(3, 2, 4),

    edge_vertex_data(0, 3, 0, kVertexData_InvertNegativeCoverageBit),
    edge_vertex_data(0, 3, 1, 0),
    edge_vertex_data(0, 3, 2, 0),
    edge_vertex_data(3, 0, 0, 0),
    edge_vertex_data(3, 0, 1, 0),
    edge_vertex_data(3, 0, 2, kVertexData_InvertNegativeCoverageBit) >>

kHull4AndEdgeIndicesAsStrips == <<
    1, 0, 2, 11, 3, 5, 4, kRestartStrip,
    7, 6, 8, 5, 9, 11, 10, kRestartStrip,
    13, 12, 14, 17, 15, 16 >>

kHull4AndEdgeIndicesAsTris == <<
    1, 0, 2,
    0, 11, 2,
    2, 11, 3,
    11, 5, 3,
    3, 5, 4,

    7, 6, 8,
    6, 5, 8,
    8, 5, 9,
    5, 11, 9,
    9, 11, 10,

    13, 12, 14,
    12, 17, 14,
    14, 17, 15,
    17, 16, 15 >>

RenderPasses == {"Triangles", "Quadratics", "Cubics"}
WindMethods == {"CrossProduct", "InstanceData"}

(***************************************************************************)
(* SpecCodec: a vertex record is packed, then read back the way the        *)
(* evaluator reads it.                                                     *)
(***************************************************************************)
CodecInit ==
    \E l \in FieldIds, r \in FieldIds, b \in FieldIds, c \in FieldIds, f \in FlagWords :
        codec = [stage |-> "fields", left |-> l, right |-> r, bloatIdx |-> b,
                 cornerId |-> c, flags |-> f]

\* The table generator's step: the fields become one word.
CodecPack ==
    /\ codec.stage = "fields"
    /\ codec' = [codec EXCEPT !.stage = "packed"] @@
                [word |-> pack_vertex_data(codec.left, codec.right, codec.bloatIdx,
                                           codec.cornerId, codec.flags)]

\* The evaluator's step on a record it takes as stored (wind > 0).
CodecUnpack ==
    /\ codec.stage = "packed"
    /\ codec' = [codec EXCEPT !.stage = "unpacked"] @@
                [out |-> [left |-> LeftIdOf(codec.word),
                          right |-> RightIdOf(codec.word),
                          bloatIdx |-> BloatIdxOf(codec.word),
                          cornerId |-> CornerIdOf(codec.word),
                          flags |-> BitAnd(codec.word, FlagMask)]]

OthersIdleCodec ==
    /\ ia = Idle /\ wr = Idle /\ vs = Idle
    /\ procs = <<>> /\ cache = <<>> /\ made = <<>> /\ requests = {}

InitCodec == CodecInit /\ OthersIdleCodec

NextCodec ==
    \/ CodecPack /\ UNCHANGED <<ia, wr, vs, procs, cache, made, requests>>
    \/ CodecUnpack /\ UNCHANGED <<ia, wr, vs, procs, cache, made, requests>>

SpecCodec == InitCodec /\ [][NextCodec]_vars

\* C1: whenever a packed record has been read back, the five fields the
\* evaluator obtains are the five fields that were packed.
C1_RoundTrip ==
    codec.stage = "unpacked" =>
        /\ codec.out.left = codec.left
        /\ codec.out.right = codec.right
        /\ codec.out.bloatIdx = codec.bloatIdx
        /\ codec.out.cornerId = codec.cornerId
        /\ codec.out.flags = codec.flags

C1_Witness ==
    /\ codec.stage = "unpacked"
    /\ codec.left = 1 /\ codec.right = 3 /\ codec.bloatIdx = 2 /\ codec.cornerId = 3
    /\ codec.flags = FlagMask
    /\ codec.word = 1983
    /\ codec.out.left = 1 /\ codec.out.right = 3 /\ codec.out.flags = 60

(***************************************************************************)
(* What initVS binds for a render pass, given the resource provider's      *)
(* primitive-restart capability.                                           *)
(***************************************************************************)
\* initVS binding the curve tables' vertex records to every render pass.
VertexTable_AlwaysHull4(renderPass) == kHull4AndEdgeVertices

VertexTable(renderPass) ==
    IF renderPass = "Triangles" THEN kTriangleVertices ELSE kHull4AndEdgeVertices

\* initVS binding, with primitive restart, the curve strips to every render pass.
IndexTable_StripsOfHull4(renderPass, usePrimitiveRestart) ==
    IF usePrimitiveRestart THEN kHull4AndEdgeIndicesAsStrips
    ELSE IF renderPass = "Triangles" THEN kTriangleIndicesAsTris
    ELSE kHull4AndEdgeIndicesAsTris

IndexTable(renderPass, usePrimitiveRestart) ==
    IF renderPass = "Triangles"
    THEN (IF usePrimitiveRestart THEN kTriangleIndicesAsStrips ELSE kTriangleIndicesAsTris)
    ELSE (IF usePrimitiveRestart THEN kHull4AndEdgeIndicesAsStrips
          ELSE kHull4AndEdgeIndicesAsTris)

\* fNumIndicesPerInstance taken from the strip table whatever the capability.
NumIndicesPerInstance_OfStrips(renderPass, usePrimitiveRestart) ==
    Len(IndexTable(renderPass, TRUE))

\* SK_ARRAY_COUNT of the bound index table.
NumIndicesPerInstance(renderPass, usePrimitiveRestart) ==
    Len(IndexTable(renderPass, usePrimitiveRestart))

\* initVS choosing triangle strips whatever the capability.
PrimitiveType_AlwaysStrip(usePrimitiveRestart) == "kTriangleStrip"

\* fPrimitiveType and setWillUsePrimitiveRestart (lines 523-528).
PrimitiveType(usePrimitiveRestart) ==
    IF usePrimitiveRestart THEN "kTriangleStrip" ELSE "kTriangles"

(***************************************************************************)
(* SpecIA: the draw of one instance of the mesh appendVSMesh builds.  The  *)
(* input assembler reads fNumIndicesPerInstance indices of the index       *)
(* buffer one at a time, fetches the vertex record of each and assembles   *)
(* triangles: of a strip every three consecutive vertices of a run, a run  *)
(* ending at the restart index; of a list every three indices.             *)
(***************************************************************************)
\* A triangle as an unordered triple: its three vertex ids in ascending order.
Min2(a, b) == IF a <= b THEN a ELSE b
Max2(a, b) == IF a <= b THEN b ELSE a
Triangle(a, b, c) ==
    <<Min2(a, Min2(b, c)), (a + b + c) - Min2(a, Min2(b, c)) - Max2(a, Max2(b, c)),
      Max2(a, Max2(b, c))>>

\* The assembler's state before the first index: no pending vertex, no triangle.
AssemblyStart == [run |-> <<>>, tris |-> EmptyBag, oob |-> FALSE]

\* One index of a triangle strip with primitive restart.
StripStep(st, idx, numVertices) ==
    IF idx = kRestartStrip THEN [st EXCEPT !.run = <<>>]
    ELSE LET run == Append(st.run, idx)
             n == Len(run)
         IN [run |-> IF n >= 3 THEN <<run[n - 1], run[n]>> ELSE run,
             tris |-> IF n >= 3
                      THEN st.tris (+) SetToBag({Triangle(run[n - 2], run[n - 1], run[n])})
                      ELSE st.tris,
             oob |-> st.oob \/ idx >= numVertices]

\* One index of a triangle list.
ListStep(st, idx, numVertices) ==
    LET run == Append(st.run, idx)
    IN [run |-> IF Len(run) = 3 THEN <<>> ELSE run,
        tris |-> IF Len(run) = 3
                 THEN st.tris (+) SetToBag({Triangle(run[1], run[2], run[3])})
                 ELSE st.tris,
        oob |-> st.oob \/ idx >= numVertices]

\* The triangles of a whole table read as a strip: one for every three
\* consecutive entries of a restart-separated run.
StripTriangles(table) ==
    LET at == {i \in 1 .. Len(table) - 2 :
                   /\ table[i] # kRestartStrip
                   /\ table[i + 1] # kRestartStrip
                   /\ table[i + 2] # kRestartStrip}
        tri(i) == Triangle(table[i], table[i + 1], table[i + 2])
    IN [t \in {tri(i) : i \in at} |-> Cardinality({i \in at : tri(i) = t})]

\* The triangles of a whole table read as a list: one for every three entries.
ListTriangles(table) ==
    LET at == {i \in 1 .. Len(table) \div 3 : TRUE}
        tri(i) == Triangle(table[3 * i - 2], table[3 * i - 1], table[3 * i])
    IN [t \in {tri(i) : i \in at} |-> Cardinality({i \in at : tri(i) = t})]

IAInit ==
    \E rp \in RenderPasses, restart \in BOOLEAN :
        ia = [stage |-> "draw", renderPass |-> rp, usePrimitiveRestart |-> restart,
              primitiveType |-> PrimitiveType(restart),
              numIndices |-> NumIndicesPerInstance(rp, restart),
              pos |-> 0, asm |-> AssemblyStart]

IAStrip ==
    /\ ia.stage = "draw" /\ ia.primitiveType = "kTriangleStrip"
    /\ ia.pos < ia.numIndices
    /\ ia' = [ia EXCEPT
                !.pos = @ + 1,
                !.asm = StripStep(@, IndexTable(ia.renderPass, ia.usePrimitiveRestart)[ia.pos + 1],
                                  Len(VertexTable(ia.renderPass)))]

IAList ==
    /\ ia.stage = "draw" /\ ia.primitiveType = "kTriangles"
    /\ ia.pos < ia.numIndices
    /\ ia' = [ia EXCEPT
                !.pos = @ + 1,
                !.asm = ListStep(@, IndexTable(ia.renderPass, ia.usePrimitiveRestart)[ia.pos + 1],
                                 Len(VertexTable(ia.renderPass)))]

OthersIdleIA ==
    /\ codec = Idle /\ wr = Idle /\ vs = Idle
    /\ procs = <<>> /\ cache = <<>> /\ made = <<>> /\ requests = {}

InitIA == IAInit /\ OthersIdleIA

NextIA ==
    \/ IAStrip /\ UNCHANGED <<codec, wr, vs, procs, cache, made, requests>>
    \/ IAList /\ UNCHANGED <<codec, wr, vs, procs, cache, made, requests>>

SpecIA == InitIA /\ [][NextIA]_vars

\* The index just read by the draw (none before the first).
IALastIndex == IndexTable(ia.renderPass, ia.usePrimitiveRestart)[ia.pos]

\* C2: every index a draw has read is either the restart index, which only a
\* strip table holds and which is no vertex id of the bound vertex table, or
\* is below the number of vertex records of the bound vertex table; no vertex
\* fetch is out of bounds.
C2_IndexBounds ==
    (ia.stage = "draw" /\ ia.pos > 0) =>
        /\ IALastIndex # kRestartStrip => IALastIndex < Len(VertexTable(ia.renderPass))
        /\ IALastIndex = kRestartStrip =>
              /\ ia.primitiveType = "kTriangleStrip"
              /\ kRestartStrip >= Len(VertexTable(ia.renderPass))
        /\ ~ia.asm.oob

C2_Witness ==
    /\ ia.stage = "draw" /\ ia.renderPass = "Triangles" /\ ia.usePrimitiveRestart
    /\ ia.pos = ia.numIndices
    /\ IALastIndex = 37
    /\ \E i \in 1 .. ia.numIndices : kTriangleIndicesAsStrips[i] = 38
    /\ Len(VertexTable(ia.renderPass)) = 39

\* C3: when a draw has read its whole index table, the multiset of triangles
\* it assembled is the multiset the other form of the same topology gives:
\* a strip draw ends with the triangles of the list table, and a list draw
\* with the triangles of the strip table.
C3_StripListEquivalent ==
    (ia.stage = "draw" /\ ia.pos = ia.numIndices) =>
        IF ia.usePrimitiveRestart
        THEN ia.asm.tris = ListTriangles(IndexTable(ia.renderPass, FALSE))
        ELSE ia.asm.tris = StripTriangles(IndexTable(ia.renderPass, TRUE))

C3_Witness ==
    /\ ia.stage = "draw" /\ ia.renderPass = "Triangles" /\ ia.usePrimitiveRestart
    /\ ia.pos = ia.numIndices
    /\ BagCardinality(ia.asm.tris) = 25
    /\ BagIn(<<0, 3, 8>>, ia.asm.tris)
    /\ BagIn(<<28, 29, 30>>, ia.asm.tris)

(***************************************************************************)
(* Points and vectors: pairs of integers.  The shader computes in floats;  *)
(* on integer coordinates of the size used here every difference, product  *)
(* and sum below is exact.                                                 *)
(***************************************************************************)
VSub(a, b) == <<a[1] - b[1], a[2] - b[2]>>
Sign(x) == IF x > 0 THEN 1 ELSE IF x < 0 THEN -1 ELSE 0
VSign(a) == <<Sign(a[1]), Sign(a[2])>>

\* determinant(float2x2(a, b)) with the second product added instead of
\* subtracted.
Determinant_Plus(a, b) == (a[1] * b[2]) + (b[1] * a[2])

\* determinant(float2x2(a, b)): the matrix with columns a and b.
Determinant(a, b) == (a[1] * b[2]) - (b[1] * a[2])

\* area_x2 of onEmitCode for 3 or 4 input points.
AreaX2(pts) ==
    Determinant(VSub(pts[1], pts[2]), VSub(pts[1], pts[3]))
    + (IF Len(pts) = 4
       THEN Determinant(VSub(pts[1], pts[3]), VSub(pts[1], pts[4]))
       ELSE 0)

\* "half wind" of onEmitCode: the sign of the area, or the w component of the
\* instance's X attribute.
Wind(windMethod, pts, w) ==
    IF windMethod = "CrossProduct" THEN Sign(AreaX2(pts)) ELSE w

\* The points i -> N-1-i.
Reversed(pts) == [i \in 1 .. Len(pts) |-> pts[Len(pts) + 1 - i]]
\* The points with two of them exchanged.
Swapped(pts, i, j) == [pts EXCEPT ![i] = pts[j], ![j] = pts[i]]

(***************************************************************************)
(* SpecWind: onEmitCode's winding computation on one instance.             *)
(***************************************************************************)
\* Coordinates of the instances: 0 .. WindGridMax for 3 points,
\* 0 .. QuadGridMax for 4 points.
WindGridMax == 4
QuadGridMax == 2

GridPoints(max) == (0 .. max) \X (0 .. max)

\* The wind values an instance can carry in its X attribute.
InstanceWinds == {-1, 1}

WindInit ==
    \/ \E p0 \in GridPoints(WindGridMax), p1 \in GridPoints(WindGridMax),
          p2 \in GridPoints(WindGridMax) :
          \/ wr = [stage |-> "instance", windMethod |-> "CrossProduct",
                   pts |-> <<p0, p1, p2>>, w |-> 0]
          \/ \E w \in InstanceWinds :
                wr = [stage |-> "instance", windMethod |-> "InstanceData",
                      pts |-> <<p0, p1, p2>>, w |-> w]
    \/ \E p0 \in GridPoints(QuadGridMax), p1 \in GridPoints(QuadGridMax),
          p2 \in GridPoints(QuadGridMax), p3 \in GridPoints(QuadGridMax) :
          wr = [stage |-> "instance", windMethod |-> "CrossProduct",
                pts |-> <<p0, p1, p2, p3>>, w |-> 0]

\* onEmitCode, lines 249-256.
WindCrossProduct ==
    /\ wr.stage = "instance" /\ wr.windMethod = "CrossProduct"
    /\ wr' = [wr EXCEPT !.stage = "wind"] @@
             [area_x2 |-> AreaX2(wr.pts), wind |-> Wind(wr.windMethod, wr.pts, wr.w)]

\* onEmitCode, lines 257-262.
WindInstanceData ==
    /\ wr.stage = "instance" /\ wr.windMethod = "InstanceData"
    /\ Len(wr.pts) = 3
    /\ wr' = [wr EXCEPT !.stage = "wind"] @@
             [area_x2 |-> 0, wind |-> Wind(wr.windMethod, wr.pts, wr.w)]

OthersIdleWind ==
    /\ codec = Idle /\ ia = Idle /\ vs = Idle
    /\ procs = <<>> /\ cache = <<>> /\ made = <<>> /\ requests = {}

InitWind == WindInit /\ OthersIdleWind

NextWind ==
    \/ WindCrossProduct /\ UNCHANGED <<codec, ia, vs, procs, cache, made, requests>>
    \/ WindInstanceData /\ UNCHANGED <<codec, ia, vs, procs, cache, made, requests>>

SpecWind == InitWind /\ [][NextWind]_vars

\* C7: with WindMethod::CrossProduct, the area_x2 and the wind computed for an
\* instance are the negation of those of the instance with its points in
\* reversed order and, for 3 points, of the instance with any two points
\* exchanged.
C7_WindFlips ==
    (wr.stage = "wind" /\ wr.windMethod = "CrossProduct") =>
        /\ AreaX2(Reversed(wr.pts)) = 0 - wr.area_x2
        /\ Wind("CrossProduct", Reversed(wr.pts), 0) = 0 - wr.wind
        /\ Len(wr.pts) = 3 =>
              \A i \in 1 .. 3, j \in 1 .. 3 :
                  i # j =>
                      /\ AreaX2(Swapped(wr.pts, i, j)) = 0 - wr.area_x2
                      /\ Wind("CrossProduct", Swapped(wr.pts, i, j), 0) = 0 - wr.wind

\* The spec's triangle (0,0),(4,0),(0,4) has wind +1; its reversal
\* (0,4),(4,0),(0,0) and the listed (0,0),(0,4),(4,0) have wind -1.
C7_Witness ==
    /\ wr.stage = "wind" /\ wr.windMethod = "CrossProduct"
    /\ wr.pts = <<(<<0, 0>>), (<<4, 0>>), (<<0, 4>>)>>
    /\ wr.area_x2 = 16 /\ wr.wind = 1
    /\ Wind("CrossProduct", <<(<<0, 0>>), (<<0, 4>>), (<<4, 0>>)>>, 0) = -1

(***************************************************************************)
(* The per-vertex evaluator, emitVertexPosition.                           *)
(***************************************************************************)
NumSides(renderPass) == IF renderPass = "Triangles" THEN 3 ELSE 4

\* The constant the generated shader subtracts the vertex data from when
\* wind <= 0, for each number of sides a shader is generated for.
ClockwiseMasks ==
    [numSides \in {3, 4} |->
        BitOr(BitOr(BitOr(Shl(numSides - 1, kVertexData_LeftNeighborIdShift),
                          Shl(numSides - 1, kVertexData_RightNeighborIdShift)),
                    BitXor(Shl(1, kVertexData_RightNeighborIdShift) - 1, 3)),
              numSides - 1)]
\* The constant of the 4-sided shader in every shader.
ClockwiseMask_OfHull4(numSides) == ClockwiseMasks[4]

ClockwiseMask(numSides) == ClockwiseMasks[numSides]

\* clockwise_indices with the reversal chosen for wind > 0 instead of the
\* other winds.
ClockwiseIndices_Inverted(numSides, wind, vertexdata) ==
    IF wind > 0 THEN ClockwiseMask(numSides) - vertexdata ELSE vertexdata

\* "int clockwise_indices = wind > 0 ? vertexdata : mask - vertexdata;"
ClockwiseIndices(numSides, wind, vertexdata) ==
    IF wind > 0 THEN vertexdata ELSE ClockwiseMask(numSides) - vertexdata

\* The bloat direction without the negation of its second component.
BloatOfSign_NoNegate(v) ==
    <<IF v[2] # 0 THEN v[2] ELSE v[1], IF v[1] # 0 THEN v[1] ELSE v[2]>>

\* The bloat direction of an edge whose sign vector is v:
\* float2(0 != v.y ? v.y : v.x, 0 != v.x ? -v.x : -v.y).
BloatOfSign(v) ==
    <<IF v[2] # 0 THEN v[2] ELSE v[1], IF v[1] # 0 THEN 0 - v[1] ELSE 0 - v[2]>>

\* float2(-d.y, +d.x): "90 deg CW".
RotateCW(d) == <<0 - d[2], d[1]>>
\* The corner box turned as a step of the switch turns.
RotateBox_AsCascade(d) == <<0 - d[2], d[1]>>

\* float2(+d.y, -d.x): the rotation applied to a corner box before the switch.
RotateBox(d) == <<d[2], 0 - d[1]>>

\* The switch with case 2 testing any() as case 1 does.
Cascade_AnyTwice(renderPass, bloatidx, notequal, dir) ==
    LET any == notequal[1] \/ notequal[2]
        d2 == IF bloatidx >= 2 /\ any THEN RotateCW(dir) ELSE dir
    IN IF bloatidx >= 1 /\ any THEN RotateCW(d2) ELSE d2

\* "switch (bloatidx)": case 3 exists for triangles only; every case falls
\* through to the lower ones.  A value with no case runs nothing.
Cascade(renderPass, bloatidx, notequal, dir) ==
    LET all == notequal[1] /\ notequal[2]
        any == notequal[1] \/ notequal[2]
        at3 == bloatidx = 3 /\ renderPass = "Triangles"
        at2 == at3 \/ bloatidx = 2
        at1 == at2 \/ bloatidx = 1
        d3 == IF at3 THEN RotateCW(dir) ELSE dir
        d2 == IF at2 /\ all THEN RotateCW(d3) ELSE d3
    IN IF at1 /\ any THEN RotateCW(d2) ELSE d2

\* Coverage values are multiples of 1/CovDen; the value 1 is CovDen.
CovDen == 1
One == CovDen

\* What CalcEdgeCoverageAtBloatVertex can write: a ramp value in [-1, 0].
EdgeCoverages == (0 - One) .. 0

\* "coverage = -1 - coverage".
InvertCoverage(c) == (0 - One) - c

\* The corner-box table with the two subtractions exchanged.
CornerCoverage_Swapped(bloatidx, left_coverage, right_coverage) ==
    LET c0 == IF bloatidx = 1 THEN 0 - One ELSE 0
        c1 == IF BitAnd(bloatidx + 3, 3) < 2 THEN c0 - right_coverage ELSE c0
    IN IF bloatidx < 2 THEN c1 - left_coverage ELSE c1

\* Lines 415-421: the coverage of a corner-box vertex.
CornerCoverage(bloatidx, left_coverage, right_coverage) ==
    LET c0 == IF bloatidx = 1 THEN 0 - One ELSE 0
        c1 == IF BitAnd(bloatidx + 3, 3) < 2 THEN c0 - left_coverage ELSE c0
    IN IF bloatidx < 2 THEN c1 - right_coverage ELSE c1

\* The curve passes giving an edge record the hull's coverage.
CurveCoverage_NoEdge(vertexdata) == One

\* Lines 396, 424-427: the coverage of a curve-pass vertex before inversion.
CurveCoverage(vertexdata) ==
    IF HasBit(vertexdata, kVertexData_IsEdgeBit) THEN 0 - One ELSE One

\* sign(normalize(a) + normalize(b)), one component: the sign of
\* a[k]/|a| + b[k]/|b| for non-zero a and b, decided on integers.
Len2(a) == (a[1] * a[1]) + (a[2] * a[2])
BisectSign(a, b, k) ==
    LET sa == Sign(a[k])
        sb == Sign(b[k])
        \* |a[k]|/|a| against |b[k]|/|b|, squared and cross-multiplied.
        ma == (a[k] * a[k]) * Len2(b)
        mb == (b[k] * b[k]) * Len2(a)
    IN IF sa = sb THEN sa
       ELSE IF sa = 0 THEN sb
       ELSE IF sb = 0 THEN sa
       ELSE IF ma > mb THEN sa
       ELSE IF mb > ma THEN sb
       ELSE 0

\* Lines 315-333: the three points the vertex is computed from.  A point index
\* outside the hull points reads an undefined value: oob records it and the
\* point is taken as the origin.
SelectPoints(renderPass, hullPts, wind, vertexdata) ==
    LET at(i) == IF i \in 0 .. Len(hullPts) - 1 THEN hullPts[i + 1] ELSE <<0, 0>>
        pick(ci, cornerId, leftId, rightId) ==
            [clockwise_indices |-> ci,
             cornerId |-> cornerId, leftId |-> leftId, rightId |-> rightId,
             oob |-> {cornerId, leftId, rightId} \ (0 .. Len(hullPts) - 1) # {},
             corner |-> at(cornerId), left |-> at(leftId), right |-> at(rightId)]
        decode(ci) == pick(ci, CornerIdOf(ci), LeftIdOf(ci), RightIdOf(ci))
    IN decode(ClockwiseIndices(NumSides(renderPass), wind, vertexdata))

\* "if (0 != (vertexdata & kVertexData_IsCornerBit))", which the triangle
\* pass alone has in its shader.
IsCornerVertex(renderPass, vertexdata) ==
    renderPass = "Triangles" /\ HasBit(vertexdata, kVertexData_IsCornerBit)

\* "if (0 != (vertexdata & (kVertexData_IsEdgeBit | kVertexData_IsCornerBit)))",
\* of the triangle pass alone as well.
IsEdgeOrCornerVertex(renderPass, vertexdata) ==
    renderPass = "Triangles" /\ HasBit(vertexdata, kEdgeOrCornerBits)

\* Lines 335-364: leftbloat, rightbloat, left_right_notequal and the bloat
\* direction before the switch.  nd is the outcome of
\* "sign(bisect) == sign(leftbloat)" when bisect is undefined (normalize of a
\* zero vector).
BloatStart(isCorner, nd, corner, left, right) ==
    LET boxRotates(leftbloat, cr, cl) ==
            IF corner # right /\ corner # left
            THEN <<BisectSign(cr, cl, 1), BisectSign(cr, cl, 2)>> = VSign(leftbloat)
            ELSE nd
        start(leftbloat, rightbloat) ==
            [leftbloat |-> leftbloat, rightbloat |-> rightbloat,
             left_right_notequal |->
                 IF isCorner THEN <<TRUE, TRUE>>
                 ELSE <<leftbloat[1] # rightbloat[1], leftbloat[2] # rightbloat[2]>>,
             bloatdir0 |->
                 IF isCorner /\ boxRotates(leftbloat, VSub(corner, right), VSub(corner, left))
                 THEN RotateBox(leftbloat) ELSE leftbloat]
    IN start(BloatOfSign(VSign(VSub(corner, left))),
             BloatOfSign(VSign(VSub(right, corner))))

\* Lines 395-436: the coverage, given what the first and the second call of
\* CalcEdgeCoverageAtBloatVertex write (L, R), and the calls made; at holds
\* corner, left, right, bloatdir and bloatidx.
Coverage(renderPass, vertexdata, isCorner, isEdgeOrCorner, inverts, at, L, R) ==
    LET inverted(coverage0) ==
            IF inverts THEN InvertCoverage(coverage0) ELSE coverage0
    IN [edgeCalls |->
            (IF isEdgeOrCorner
             THEN <<[leftPt |-> at.left, rightPt |-> at.corner, dir |-> at.bloatdir,
                     out |-> L]>>
             ELSE <<>>)
            \o (IF isCorner
                THEN <<[leftPt |-> at.corner, rightPt |-> at.right, dir |-> at.bloatdir,
                        out |-> R]>>
                ELSE <<>>),
        coverage |->
            inverted(IF renderPass = "Triangles"
                     THEN (IF isCorner THEN CornerCoverage(at.bloatidx, L, R)
                           ELSE IF isEdgeOrCorner THEN L
                           ELSE One)
                     ELSE CurveCoverage(vertexdata))]

\* What a call of CalcEdgeCoverageAtBloatVertex can write: a ramp value when
\* the call is made, and 0 for a call that is not made.
EdgeCoveragesOf(called) == IF called THEN EdgeCoverages ELSE {0}

\* The outcomes "sign(bisect) == sign(leftbloat)" can have: both where a
\* corner record normalizes a zero vector; elsewhere the comparison is
\* defined or not evaluated.
BisectOutcomes(isCorner, corner, left, right) ==
    IF isCorner /\ (corner = right \/ corner = left) THEN BOOLEAN ELSE {FALSE}

\* One invocation of the vertex shader's emitVertexPosition code: the set of
\* its outcomes, over what the calls of CalcEdgeCoverageAtBloatVertex write
\* and over the undefined comparison.
\*   hullPts     the N points the hull is built on
\*   wind        "half wind" of onEmitCode
\*   vertexdata  the record of the vertex buffer
EmitVertexPosition(renderPass, hullPts, wind, vertexdata) ==
    LET withCoverage(position, isCorner, isEdgeOrCorner, inverts) ==
            {position @@
             Coverage(renderPass, vertexdata, isCorner, isEdgeOrCorner, inverts,
                      position, L, R) :
                 L \in EdgeCoveragesOf(isEdgeOrCorner), R \in EdgeCoveragesOf(isCorner)}
        withDir(sel, st, isCorner, bloatidx, bloatdir) ==
            withCoverage(
                sel @@ st @@
                [bloatidx |-> bloatidx, bloatdir |-> bloatdir,
                 \* "vertex = corner + bloatdir * bloat", with bloat > 0 left symbolic.
                 vertex |-> [corner |-> sel.corner, bloatdir |-> bloatdir]],
                isCorner,
                IsEdgeOrCornerVertex(renderPass, vertexdata),
                HasBit(vertexdata, kVertexData_InvertNegativeCoverageBit))
        withStart(sel, st, isCorner, bloatidx) ==
            withDir(sel, st, isCorner, bloatidx,
                    Cascade(renderPass, bloatidx, st.left_right_notequal, st.bloatdir0))
        withPoints(sel, isCorner) ==
            UNION {withStart(sel,
                             BloatStart(isCorner, nd, sel.corner, sel.left, sel.right),
                             isCorner,
                             BloatIdxOf(vertexdata)) :
                       nd \in BisectOutcomes(isCorner, sel.corner, sel.left, sel.right)}
    IN withPoints(SelectPoints(renderPass, hullPts, wind, vertexdata),
                  IsCornerVertex(renderPass, vertexdata))

(***************************************************************************)
(* SpecVS: the vertex shader on one instance.  The instance fixes the hull *)
(* points and the wind; each invocation takes one record of the vertex     *)
(* buffer initVS bound for the render pass.                                *)
(***************************************************************************)
\* Coordinates of the hull points: 0 .. VSGridMax.
VSGridMax == 1

\* The hull points of an instance: N points of the grid.
HullPointSets(renderPass) ==
    IF NumSides(renderPass) = 3
    THEN {<<p0, p1, p2>> : p0 \in GridPoints(VSGridMax), p1 \in GridPoints(VSGridMax),
                           p2 \in GridPoints(VSGridMax)}
    ELSE {<<p0, p1, p2, p3>> : p0 \in GridPoints(VSGridMax), p1 \in GridPoints(VSGridMax),
                               p2 \in GridPoints(VSGridMax), p3 \in GridPoints(VSGridMax)}

\* The winds onEmitCode can hand over with given hull points.  A triangle's
\* hull points are its input points: the wind is the sign of their area, or
\* any wind the instance carries.  A cubic's hull points are its 4 input
\* points, and 4 points are accepted with the cross product only.  A
\* quadratic's hull is built by the shader's set-up code from its 3 input
\* points, so every wind can meet every hull.
WindsOf(renderPass, hullPts) ==
    IF renderPass = "Triangles"
    THEN {Wind("CrossProduct", hullPts, 0)} \cup InstanceWinds
    ELSE IF renderPass = "Cubics"
    THEN {Wind("CrossProduct", hullPts, 0)}
    ELSE {-1, 0, 1}

VSInit ==
    \E rp \in RenderPasses :
        \E hull \in HullPointSets(rp) :
            \E wind \in WindsOf(rp, hull) :
                vs = [stage |-> "instance", renderPass |-> rp, hullPts |-> hull,
                      wind |-> wind]

\* The shader generated for RenderPass::kTriangles, run on one vertex.
VSTriangleVertex ==
    /\ vs.stage = "instance" /\ vs.renderPass = "Triangles"
    /\ \E v \in 1 .. Len(VertexTable(vs.renderPass)) :
       \E out \in EmitVertexPosition(vs.renderPass, vs.hullPts, vs.wind,
                                     VertexTable(vs.renderPass)[v]) :
          vs' = [vs EXCEPT !.stage = "vertex"] @@
                [vertexId |-> v - 1,
                 vertexdata |-> VertexTable(vs.renderPass)[v],
                 out |-> out]

\* The shader generated for the curve passes, run on one vertex.
VSCurveVertex ==
    /\ vs.stage = "instance" /\ vs.renderPass # "Triangles"
    /\ \E v \in 1 .. Len(VertexTable(vs.renderPass)) :
       \E out \in EmitVertexPosition(vs.renderPass, vs.hullPts, vs.wind,
                                     VertexTable(vs.renderPass)[v]) :
          vs' = [vs EXCEPT !.stage = "vertex"] @@
                [vertexId |-> v - 1,
                 vertexdata |-> VertexTable(vs.renderPass)[v],
                 out |-> out]

OthersIdleVS ==
    /\ codec = Idle /\ ia = Idle /\ wr = Idle
    /\ procs = <<>> /\ cache = <<>> /\ made = <<>> /\ requests = {}

InitVS == VSInit /\ OthersIdleVS

NextVS ==
    \/ VSTriangleVertex /\ UNCHANGED <<codec, ia, wr, procs, cache, made, requests>>
    \/ VSCurveVertex /\ UNCHANGED <<codec, ia, wr, procs, cache, made, requests>>

SpecVS == InitVS /\ [][NextVS]_vars

VSDone == vs.stage = "vertex"
VSIsHull == HasBit(vs.vertexdata, kVertexData_IsHullBit)
VSIsEdge == HasBit(vs.vertexdata, kVertexData_IsEdgeBit)
VSIsCorner == HasBit(vs.vertexdata, kVertexData_IsCornerBit)
VSInverts == HasBit(vs.vertexdata, kVertexData_InvertNegativeCoverageBit)

RECURSIVE RotateCWTimes(_, _)
RotateCWTimes(d, n) == IF n = 0 THEN d ELSE RotateCWTimes(<<0 - d[2], d[1]>>, n - 1)

Bool01(b) == IF b THEN 1 ELSE 0

\* The number of clockwise quarter turns the switch is to apply.
CascadeTurns(bloatidx, notequal) ==
    Bool01(bloatidx >= 1 /\ (notequal[1] \/ notequal[2]))
    + Bool01(bloatidx >= 2 /\ (notequal[1] /\ notequal[2]))
    + Bool01(bloatidx = 3)

\* C4: the bloat direction after the switch is the direction before it turned
\* clockwise by [bloatIdx >= 1 and any(notEqual)] + [bloatIdx >= 2 and
\* all(notEqual)] + [bloatIdx = 3] quarter turns; a corner record has notEqual
\* = (true, true) and so turns bloatIdx times, and a record that is no corner
\* has notEqual = notEqual(leftbloat, rightbloat) and never bloatIdx 3.
C4_RotationCascade ==
    VSDone =>
        /\ vs.out.bloatdir =
              RotateCWTimes(vs.out.bloatdir0,
                            CascadeTurns(vs.out.bloatidx, vs.out.left_right_notequal))
        /\ IF vs.renderPass = "Triangles" /\ VSIsCorner
           THEN
              /\ vs.out.left_right_notequal = <<TRUE, TRUE>>
              /\ vs.out.bloatdir = RotateCWTimes(vs.out.bloatdir0, vs.out.bloatidx)
           ELSE
              /\ vs.out.bloatdir0 = vs.out.leftbloat
              /\ vs.out.left_right_notequal =
                    <<vs.out.leftbloat[1] # vs.out.rightbloat[1],
                      vs.out.leftbloat[2] # vs.out.rightbloat[2]>>
              /\ vs.out.bloatidx < 3
              /\ vs.out.bloatidx = 0 => vs.out.bloatdir = vs.out.bloatdir0

\* A hull record with bloatIdx 2 whose bloat directions differ in one
\* component only: one quarter turn, not two.
C4_Witness ==
    /\ VSDone /\ VSIsHull /\ vs.out.bloatidx = 2
    /\ vs.out.left_right_notequal \in {<<TRUE, FALSE>>, <<FALSE, TRUE>>}
    /\ vs.out.bloatdir0 # <<0, 0>>
    /\ vs.out.bloatdir = RotateCW(vs.out.bloatdir0)
    /\ vs.out.bloatdir # vs.out.bloatdir0

\* C5: a corner record of the triangle pass calls the edge coverage on (left,
\* corner, bloatdir), giving L, and on (corner, right, bloatdir), giving R, and
\* emits -R for bloatIdx 0, -1 - L - R for bloatIdx 1, -L for bloatIdx 2 and 0
\* for bloatIdx 3.
C5_CornerCoverage ==
    (VSDone /\ vs.renderPass = "Triangles" /\ VSIsCorner) =>
        /\ Len(vs.out.edgeCalls) = 2
        /\ vs.out.edgeCalls[1].leftPt = vs.out.left
        /\ vs.out.edgeCalls[1].rightPt = vs.out.corner
        /\ vs.out.edgeCalls[1].dir = vs.out.bloatdir
        /\ vs.out.edgeCalls[2].leftPt = vs.out.corner
        /\ vs.out.edgeCalls[2].rightPt = vs.out.right
        /\ vs.out.edgeCalls[2].dir = vs.out.bloatdir
        /\ LET L == vs.out.edgeCalls[1].out
               R == vs.out.edgeCalls[2].out
           IN vs.out.coverage =
                 CASE vs.out.bloatidx = 0 -> 0 - R
                   [] vs.out.bloatidx = 1 -> ((0 - One) - L) - R
                   [] vs.out.bloatidx = 2 -> 0 - L
                   [] vs.out.bloatidx = 3 -> 0

\* A corner vertex with bloatIdx 1 and L # R both non-zero.
C5_Witness ==
    /\ VSDone /\ vs.renderPass = "Triangles" /\ VSIsCorner
    /\ vs.out.bloatidx = 1
    /\ vs.out.edgeCalls[1].out = 0 - One
    /\ vs.out.edgeCalls[2].out = 0
    /\ vs.out.coverage = 0

\* C6 as stated: for a wind < 0 there is, for each of the four fields, one
\* constant such that the field the evaluator works with is the stored field
\* XOR that constant, on every record of the bound vertex table, and the
\* point indices are not left as stored.
C6_Original ==
    (VSDone /\ vs.wind < 0) =>
        LET table == VertexTable(vs.renderPass)
            ci(v) == ClockwiseIndices(NumSides(vs.renderPass), vs.wind, table[v])
        IN /\ \E k \in 1 .. 3 : \A v \in 1 .. Len(table) :
                 CornerIdOf(ci(v)) = BitXor(CornerIdOf(table[v]), k)
           /\ \E k \in 1 .. 3 : \A v \in 1 .. Len(table) :
                 LeftIdOf(ci(v)) = BitXor(LeftIdOf(table[v]), k)
           /\ \E k \in 1 .. 3 : \A v \in 1 .. Len(table) :
                 RightIdOf(ci(v)) = BitXor(RightIdOf(table[v]), k)
           /\ \E k \in 0 .. 3 : vs.out.bloatidx = BitXor(BloatIdxOf(vs.vertexdata), k)

\* C6 as amended: with wind > 0 the evaluator works with the stored cornerId,
\* left and right neighbour ids; with any other wind (negative or zero) each
\* of the three is N-1 minus the stored one, which is the stored one XOR 3 on
\* the 4-sided topology and no XOR on the 3-sided one; bloatIdx is always the
\* stored one.
C6_Remap ==
    VSDone =>
        LET remapped(n, cornerId, leftId, rightId) ==
               /\ vs.wind > 0 =>
                     /\ vs.out.cornerId = cornerId
                     /\ vs.out.leftId = leftId
                     /\ vs.out.rightId = rightId
               /\ ~(vs.wind > 0) =>
                     /\ vs.out.cornerId = (n - 1) - cornerId
                     /\ vs.out.leftId = (n - 1) - leftId
                     /\ vs.out.rightId = (n - 1) - rightId
                     /\ n = 4 =>
                           /\ vs.out.cornerId = BitXor(cornerId, 3)
                           /\ vs.out.leftId = BitXor(leftId, 3)
                           /\ vs.out.rightId = BitXor(rightId, 3)
                     /\ (n = 3 /\ cornerId = 1) => vs.out.cornerId = 1
        IN /\ vs.out.bloatidx = BloatIdxOf(vs.vertexdata)
           /\ remapped(NumSides(vs.renderPass), CornerIdOf(vs.vertexdata),
                       LeftIdOf(vs.vertexdata), RightIdOf(vs.vertexdata))

\* A triangle hull record of corner 0 under a negative wind: corner 2, the
\* neighbours exchanged, bloatIdx kept.
C6_Witness ==
    /\ VSDone /\ vs.renderPass = "Triangles" /\ vs.wind < 0
    /\ vs.vertexdata = hull_vertex_data(0, 1, 3)
    /\ vs.out.cornerId = 2 /\ vs.out.leftId = 0 /\ vs.out.rightId = 1
    /\ vs.out.bloatidx = 1
    /\ vs.out.corner = vs.hullPts[3]

\* C8: in the curve passes the coverage follows from the record's flags: +1
\* for a hull record, -1 for an edge record that does not invert, 0 for an
\* edge record that inverts; inverting maps c to -1 - c, and twice to c.
C8_CurveCoverage ==
    (VSDone /\ vs.renderPass # "Triangles") =>
        /\ vs.out.edgeCalls = <<>>
        /\ LET covers(isHull, isEdge, inverts) ==
                  /\ (isHull /\ ~isEdge /\ ~inverts) \/ (isEdge /\ ~isHull)
                  /\ isHull => vs.out.coverage = One
                  /\ (isEdge /\ ~inverts) => vs.out.coverage = 0 - One
                  /\ (isEdge /\ inverts) => vs.out.coverage = (0 - One) - (0 - One)
                  /\ (isEdge /\ inverts) => vs.out.coverage = 0
           IN covers(VSIsHull, VSIsEdge, VSInverts)
        /\ \A c \in {vs.out.coverage, One, 0, 0 - One} :
              /\ InvertCoverage(c) = (0 - One) - c
              /\ InvertCoverage(InvertCoverage(c)) = c

C8_Witness ==
    /\ VSDone /\ vs.renderPass = "Cubics" /\ VSIsEdge /\ VSInverts
    /\ vs.vertexId = 17
    /\ vs.out.coverage = 0
    /\ vs.wind < 0

(***************************************************************************)
(* Spec: processors running initVS and appendVSMesh.                       *)
(*                                                                         *)
(* A resource provider owns a buffer cache and the capabilities initVS     *)
(* reads through rp->caps(); no operation of the program changes them.     *)
(* There is one provider with primitive restart and one without.  The      *)
(* unique keys are static: all providers are asked with the same keys.     *)
(* initVS calls of different processors interleave at their calls into the *)
(* resource provider.                                                      *)
(***************************************************************************)
NumProcs == 2
Procs == 1 .. NumProcs

ResourceProviders == {"rpRestart", "rpNoRestart"}
\* caps.usePrimitiveRestart() of a provider.
UsePrimitiveRestart(rp) == rp = "rpRestart"

Keys == {"gTriangleVertexBufferKey", "gTriangleIndexBufferKey",
         "gHull4AndEdgeVertexBufferKey", "gHull4AndEdgeIndexBufferKey"}

NoBuffer == [id |-> 0]

\* The tables by name: a buffer records the name of the data it was made of.
TableOf(name) ==
    CASE name = "kTriangleVertices" -> kTriangleVertices
      [] name = "kTriangleIndicesAsStrips" -> kTriangleIndicesAsStrips
      [] name = "kTriangleIndicesAsTris" -> kTriangleIndicesAsTris
      [] name = "kHull4AndEdgeVertices" -> kHull4AndEdgeVertices
      [] name = "kHull4AndEdgeIndicesAsStrips" -> kHull4AndEdgeIndicesAsStrips
      [] name = "kHull4AndEdgeIndicesAsTris" -> kHull4AndEdgeIndicesAsTris

VertexKey(renderPass) ==
    IF renderPass = "Triangles" THEN "gTriangleVertexBufferKey"
    ELSE "gHull4AndEdgeVertexBufferKey"

\* The index buffer requested under the key of the vertex buffer.
IndexKey_OfVertexBuffer(renderPass) ==
    IF renderPass = "Triangles" THEN "gTriangleVertexBufferKey"
    ELSE "gHull4AndEdgeVertexBufferKey"

IndexKey(renderPass) ==
    IF renderPass = "Triangles" THEN "gTriangleIndexBufferKey"
    ELSE "gHull4AndEdgeIndexBufferKey"

VertexData(renderPass) ==
    IF renderPass = "Triangles" THEN "kTriangleVertices" ELSE "kHull4AndEdgeVertices"

IndexData(renderPass, usePrimitiveRestart) ==
    IF renderPass = "Triangles"
    THEN (IF usePrimitiveRestart THEN "kTriangleIndicesAsStrips" ELSE "kTriangleIndicesAsTris")
    ELSE (IF usePrimitiveRestart THEN "kHull4AndEdgeIndicesAsStrips"
          ELSE "kHull4AndEdgeIndicesAsTris")

\* GrResourceProvider::findOrMakeStaticBuffer on a provider whose cache is c
\* and which has made the buffers m: the buffer registered under the key, or
\* a new buffer of the data, registered under the key; one atomic step.
FindOrMakeStaticBuffer(c, m, type, data, key) ==
    IF c[key] # NoBuffer
    THEN [buffer |-> c[key], cache |-> c, made |-> m]
    ELSE LET b == [id |-> Len(m) + 1, type |-> type, data |-> data, key |-> key]
         IN [buffer |-> b, cache |-> [c EXCEPT ![key] = b], made |-> Append(m, b)]

\* initVS making its buffer without looking the key up.
AcquireStaticBuffer_AlwaysMake(c, m, type, data, key) ==
    LET b == [id |-> Len(m) + 1, type |-> type, data |-> data, key |-> key]
    IN [buffer |-> b, cache |-> [c EXCEPT ![key] = b], made |-> Append(m, b)]

\* initVS's way to a static buffer: rp->findOrMakeStaticBuffer(type,
\* sizeof(data), data, key).
AcquireStaticBuffer(c, m, type, data, key) ==
    FindOrMakeStaticBuffer(c, m, type, data, key)

\* proc.numInputPoints(): 4 for cubics, whose instances are
\* QuadPointInstances; 3 for the passes whose attributes are float3.
NumInputPoints(renderPass) == IF renderPass = "Cubics" THEN 4 ELSE 3

NewProcessor(renderPass, windMethod, rp) ==
    [pc |-> "constructed", fRenderPass |-> renderPass, fWindMethod |-> windMethod, rp |-> rp,
     fVertexBuffer |-> NoBuffer, fIndexBuffer |-> NoBuffer, fNumIndicesPerInstance |-> 0,
     fPrimitiveType |-> "none", willUsePrimitiveRestart |-> FALSE,
     attribs |-> <<>>, mesh |-> <<>>]

ProcsInit ==
    /\ procs \in [Procs -> {NewProcessor(r, w, rp) :
                               r \in RenderPasses, w \in WindMethods, rp \in ResourceProviders}]
    /\ cache = [rp \in ResourceProviders |-> [k \in Keys |-> NoBuffer]]
    /\ made = [rp \in ResourceProviders |-> <<>>]
    /\ requests = {}

\* initVS up to and including its request for the vertex buffer
\* (lines 439-449, 469-473).
InitVSVertexBuffer(p) ==
    /\ procs[p].pc = "constructed"
    /\ LET me == procs[p]
           got == AcquireStaticBuffer(cache[me.rp], made[me.rp], "kVertex_GrBufferType",
                                      VertexData(me.fRenderPass), VertexKey(me.fRenderPass))
       IN /\ procs' = [procs EXCEPT ![p].pc = "vertexBuffer",
                                    ![p].fVertexBuffer = got.buffer]
          /\ cache' = [cache EXCEPT ![me.rp] = got.cache]
          /\ made' = [made EXCEPT ![me.rp] = got.made]
          /\ requests' = requests \cup
                 {[rp |-> me.rp, type |-> "kVertex_GrBufferType",
                   data |-> VertexData(me.fRenderPass), key |-> VertexKey(me.fRenderPass)]}

\* initVS without the assertion on the wind method.
AttribAssertHolds_Unchecked(me) == me.fRenderPass \in RenderPasses

\* SkASSERT(WindMethod::kCrossProduct == fWindMethod || 3 == numInputPoints())
\* in the branch for cubics and instance-data winds.
AttribAssertHolds(me) ==
    (me.fRenderPass = "Cubics" \/ me.fWindMethod = "InstanceData") =>
        (me.fWindMethod = "CrossProduct" \/ NumInputPoints(me.fRenderPass) = 3)

\* The rest of initVS: the request for the index buffer, the attributes and
\* the primitive type (lines 450-463, 474-528).
InitVSIndexBuffer(p) ==
    /\ procs[p].pc = "vertexBuffer"
    /\ AttribAssertHolds(procs[p])
    /\ LET me == procs[p]
           restart == UsePrimitiveRestart(me.rp)
           got == AcquireStaticBuffer(cache[me.rp], made[me.rp], "kIndex_GrBufferType",
                                      IndexData(me.fRenderPass, restart),
                                      IndexKey(me.fRenderPass))
           xy == IF me.fRenderPass = "Cubics" \/ me.fWindMethod = "InstanceData"
                 THEN "kFloat4_GrVertexAttribType" ELSE "kFloat3_GrVertexAttribType"
       IN /\ procs' = [procs EXCEPT
                ![p].pc = "ready",
                ![p].fIndexBuffer = got.buffer,
                ![p].fNumIndicesPerInstance = NumIndicesPerInstance(me.fRenderPass, restart),
                ![p].attribs = <<[name |-> "X", type |-> xy], [name |-> "Y", type |-> xy]>>
                               \o (IF me.fVertexBuffer # NoBuffer
                                   THEN <<[name |-> "vertexdata",
                                           type |-> "kInt_GrVertexAttribType"]>>
                                   ELSE <<>>),
                ![p].willUsePrimitiveRestart = restart,
                ![p].fPrimitiveType = PrimitiveType(restart)]
          /\ cache' = [cache EXCEPT ![me.rp] = got.cache]
          /\ made' = [made EXCEPT ![me.rp] = got.made]
          /\ requests' = requests \cup
                 {[rp |-> me.rp, type |-> "kIndex_GrBufferType",
                   data |-> IndexData(me.fRenderPass, restart),
                   key |-> IndexKey(me.fRenderPass)]}

\* initVS of a configuration its assertion rejects: the index buffer is
\* requested, then the assertion stops the program's use of the processor.
InitVSAssertFails(p) ==
    /\ procs[p].pc = "vertexBuffer"
    /\ ~AttribAssertHolds(procs[p])
    /\ LET me == procs[p]
           restart == UsePrimitiveRestart(me.rp)
           got == AcquireStaticBuffer(cache[me.rp], made[me.rp], "kIndex_GrBufferType",
                                      IndexData(me.fRenderPass, restart),
                                      IndexKey(me.fRenderPass))
       IN /\ procs' = [procs EXCEPT
                ![p].pc = "assertFailed",
                ![p].fIndexBuffer = got.buffer,
                ![p].fNumIndicesPerInstance = NumIndicesPerInstance(me.fRenderPass, restart)]
          /\ cache' = [cache EXCEPT ![me.rp] = got.cache]
          /\ made' = [made EXCEPT ![me.rp] = got.made]
          /\ requests' = requests \cup
                 {[rp |-> me.rp, type |-> "kIndex_GrBufferType",
                   data |-> IndexData(me.fRenderPass, restart),
                   key |-> IndexKey(me.fRenderPass)]}

\* appendVSMesh (lines 531-540): one mesh of the processor's buffers.
AppendVSMesh(p) ==
    /\ procs[p].pc = "ready"
    /\ LET me == procs[p]
       IN procs' = [procs EXCEPT
              ![p].pc = "drawn",
              ![p].mesh = <<[primitiveType |-> me.fPrimitiveType,
                             indexBuffer |-> me.fIndexBuffer,
                             indexCount |-> me.fNumIndicesPerInstance,
                             vertexBuffer |-> me.fVertexBuffer]>>]
    /\ UNCHANGED <<cache, made, requests>>

OthersIdleProcs == codec = Idle /\ ia = Idle /\ wr = Idle /\ vs = Idle

Init == ProcsInit /\ OthersIdleProcs

Next ==
    \/ \E p \in Procs : InitVSVertexBuffer(p) /\ UNCHANGED <<codec, ia, wr, vs>>
    \/ \E p \in Procs : InitVSIndexBuffer(p) /\ UNCHANGED <<codec, ia, wr, vs>>
    \/ \E p \in Procs : InitVSAssertFails(p) /\ UNCHANGED <<codec, ia, wr, vs>>
    \/ \E p \in Procs : AppendVSMesh(p) /\ UNCHANGED <<codec, ia, wr, vs>>

Spec == Init /\ [][Next]_vars

(***************************************************************************)
(* Properties of the buffer caches.                                        *)
(***************************************************************************)
MadeUnder(rp, key) == {i \in 1 .. Len(made[rp]) : made[rp][i].key = key}
Asked(rp, key) == \E r \in requests : r.rp = rp /\ r.key = key
HasVertexBuffer(p) == procs[p].pc # "constructed"
HasIndexBuffer(p) == procs[p].pc \in {"ready", "drawn", "assertFailed"}

IndexRequests == {r \in requests : r.type = "kIndex_GrBufferType"}

\* C10 as stated: index tables that differ are requested under keys that
\* differ, the strip and the list table of one topology included.
C10_Original ==
    \A r1 \in IndexRequests : \A r2 \in IndexRequests :
        r1.data # r2.data => r1.key # r2.key

TriangleIndexData == {"kTriangleIndicesAsStrips", "kTriangleIndicesAsTris"}
Hull4AndEdgeIndexData == {"kHull4AndEdgeIndicesAsStrips", "kHull4AndEdgeIndicesAsTris"}

\* C10, amended: the key of an index buffer names the topology alone, so the
\* strip and the list table of a topology are requested under the same key;
\* initVS takes the primitive-restart capability from the resource provider
\* it asks, so all requests to one provider under a key ask for the same
\* table, and a processor that has asked records the index count and the
\* primitive type of the encoding it asked for.
C10_KeyPerTopology ==
    /\ \A r \in IndexRequests :
          /\ r.data \in TriangleIndexData <=> r.key = "gTriangleIndexBufferKey"
          /\ r.data \in Hull4AndEdgeIndexData <=> r.key = "gHull4AndEdgeIndexBufferKey"
    /\ \A r1 \in IndexRequests : \A r2 \in IndexRequests :
          (r1.rp = r2.rp /\ r1.key = r2.key) => r1.data = r2.data
    /\ \A p \in Procs : HasIndexBuffer(p) =>
          LET me == procs[p]
              restart == UsePrimitiveRestart(me.rp)
          IN /\ \E r \in IndexRequests :
                   /\ r.rp = me.rp /\ r.key = IndexKey(me.fRenderPass)
                   /\ TableOf(r.data) = IndexTable(me.fRenderPass, restart)
                   /\ me.fNumIndicesPerInstance = Len(TableOf(r.data))
             /\ me.pc # "assertFailed" => me.fPrimitiveType = PrimitiveType(restart)

\* The strip and the list table of the triangle topology have both been
\* requested under the one key, each on the provider of its encoding, by
\* processors that have finished initVS.
C10_Witness ==
    /\ procs[1].fRenderPass = "Triangles" /\ procs[2].fRenderPass = "Triangles"
    /\ procs[1].rp = "rpRestart" /\ procs[2].rp = "rpNoRestart"
    /\ procs[1].pc = "ready" /\ procs[2].pc = "ready"
    /\ [rp |-> "rpRestart", type |-> "kIndex_GrBufferType",
        data |-> "kTriangleIndicesAsStrips", key |-> "gTriangleIndexBufferKey"] \in requests
    /\ [rp |-> "rpNoRestart", type |-> "kIndex_GrBufferType",
        data |-> "kTriangleIndicesAsTris", key |-> "gTriangleIndexBufferKey"] \in requests
    /\ procs[1].fNumIndicesPerInstance = Len(kTriangleIndicesAsStrips)
    /\ procs[2].fNumIndicesPerInstance = Len(kTriangleIndicesAsTris)

\* The restart-separated runs of a strip table.
StripRuns(table) ==
    Cardinality({i \in 1 .. Len(table) : table[i] = kRestartStrip}) + 1

\* C11 as stated: the index count a processor stores is 39 (strips) or 42
\* (list) for the triangle topology and 17 (strips) or 15 (list) for the
\* curve topology.
C11_Original ==
    \A p \in Procs : HasIndexBuffer(p) =>
        procs[p].fNumIndicesPerInstance =
            IF procs[p].fRenderPass = "Triangles"
            THEN (IF UsePrimitiveRestart(procs[p].rp) THEN 39 ELSE 42)
            ELSE (IF UsePrimitiveRestart(procs[p].rp) THEN 17 ELSE 15)

\* C11, amended: the triangle topology has 39 vertex records, 48 strip entries
\* in 8 restart-separated runs and 75 list entries (25 triangles); the curve
\* topology has 18 vertex records, 22 strip entries in 3 runs and 42 list
\* entries (14 triangles); initVS stores the entry count of the table it
\* requested in fNumIndicesPerInstance.
C11_TableSizes ==
    \A p \in Procs : HasIndexBuffer(p) =>
        LET sizes(renderPass, restart, n) ==
               /\ n = Len(IndexTable(renderPass, restart))
               /\ IF renderPass = "Triangles"
                  THEN /\ Len(VertexTable(renderPass)) = 39
                       /\ restart => (n = 48 /\ StripRuns(IndexTable(renderPass, restart)) = 8)
                       /\ ~restart => (n = 75 /\ n = 3 * 25)
                  ELSE /\ Len(VertexTable(renderPass)) = 18
                       /\ restart => (n = 22 /\ StripRuns(IndexTable(renderPass, restart)) = 3)
                       /\ ~restart => (n = 42 /\ n = 3 * 14)
        IN sizes(procs[p].fRenderPass, UsePrimitiveRestart(procs[p].rp),
                 procs[p].fNumIndicesPerInstance)

\* A triangle processor without primitive restart holds 75 and a cubic
\* processor with primitive restart holds 22.
C11_Witness ==
    /\ procs[1].fRenderPass = "Triangles" /\ procs[1].rp = "rpNoRestart"
    /\ procs[1].pc = "ready" /\ procs[1].fNumIndicesPerInstance = 75
    /\ procs[2].fRenderPass = "Cubics" /\ procs[2].rp = "rpRestart"
    /\ HasIndexBuffer(2) /\ procs[2].fNumIndicesPerInstance = 22

\* The edge records of a vertex table, by position.
EdgeRecords(table) == {i \in 1 .. Len(table) : HasBit(table[i], kVertexData_IsEdgeBit)}

\* C12 as stated: in the curve vertex table the edge records that carry
\* invertCoverage are the records of one direction of the edge (one value of
\* the stored cornerId, 0 or 3).
C12_Original ==
    (ia.stage = "draw" /\ ia.renderPass # "Triangles") =>
        LET oneDirection(table) ==
               \E d \in {0, 3} : \A i \in EdgeRecords(table) :
                   HasBit(table[i], kVertexData_InvertNegativeCoverageBit)
                       <=> CornerIdOf(table[i]) = d
        IN oneDirection(VertexTable(ia.renderPass))

\* C12, amended: the curve vertex table has 6 edge records, one for each of
\* the 2 directions of the edge between points 0 and 3 (corner 3 with
\* neighbour 0, corner 0 with neighbour 3) and each bloat index 0..2; exactly
\* two carry invertCoverage, one of each direction: corner 3 with bloat index
\* 0 and corner 0 with bloat index 2.
C12_SharedEdge ==
    (ia.stage = "draw" /\ ia.renderPass # "Triangles") =>
        LET shared(table) ==
               /\ Cardinality(EdgeRecords(table)) = 6
               /\ \A c \in {0, 3} : \A b \in 0 .. 2 :
                     Cardinality({i \in EdgeRecords(table) :
                                     /\ CornerIdOf(table[i]) = c
                                     /\ LeftIdOf(table[i]) = 3 - c
                                     /\ RightIdOf(table[i]) = 3 - c
                                     /\ BloatIdxOf(table[i]) = b}) = 1
               /\ \A i \in EdgeRecords(table) :
                     HasBit(table[i], kVertexData_InvertNegativeCoverageBit)
                         <=> \/ (CornerIdOf(table[i]) = 3 /\ BloatIdxOf(table[i]) = 0)
                             \/ (CornerIdOf(table[i]) = 0 /\ BloatIdxOf(table[i]) = 2)
        IN shared(VertexTable(ia.renderPass))

\* A curve draw has fetched vertex 12, the record edge_vertex_data(0, 3, 0),
\* which inverts; the next record of the same direction does not.
C12_Witness ==
    /\ ia.stage = "draw" /\ ia.renderPass = "Quadratics" /\ ia.pos > 0
    /\ IALastIndex = 12
    /\ VertexTable(ia.renderPass)[IALastIndex + 1]
           = edge_vertex_data(0, 3, 0, kVertexData_InvertNegativeCoverageBit)
    /\ HasBit(VertexTable(ia.renderPass)[IALastIndex + 1],
              kVertexData_InvertNegativeCoverageBit)
    /\ ~HasBit(VertexTable(ia.renderPass)[IALastIndex + 2],
               kVertexData_InvertNegativeCoverageBit)

\* A processor whose initVS ran to its end.
Accepted(p) == procs[p].pc \in {"ready", "drawn"}

\* C13 as stated: an accepted processor of the Cubics pass takes its wind
\* from the instance data, never from the cross product.
C13_Original ==
    \A p \in Procs :
        (Accepted(p) /\ procs[p].fRenderPass = "Cubics") =>
            procs[p].fWindMethod = "InstanceData"

\* C13, amended: initVS accepts the cross product for every render pass,
\* Cubics included; it accepts instance-data wind only for a processor with 3
\* input points, whose X and Y attributes are then float4 (wind in X.w), and
\* the only configurations it rejects are instance-data winds of a processor
\* whose number of input points is not 3.
C13_WindSources ==
    \A p \in Procs :
        LET sources(me) ==
               /\ me.fWindMethod = "CrossProduct" => me.pc # "assertFailed"
               /\ (Accepted(p) /\ me.fWindMethod = "InstanceData") =>
                      /\ NumInputPoints(me.fRenderPass) = 3
                      /\ me.attribs[1].type = "kFloat4_GrVertexAttribType"
                      /\ me.attribs[2].type = "kFloat4_GrVertexAttribType"
               /\ (Accepted(p) /\ me.fRenderPass = "Cubics") =>
                      /\ me.attribs[1].type = "kFloat4_GrVertexAttribType"
                      /\ me.attribs[2].type = "kFloat4_GrVertexAttribType"
               /\ me.pc = "assertFailed" =>
                      /\ me.fWindMethod = "InstanceData"
                      /\ NumInputPoints(me.fRenderPass) # 3
        IN sources(procs[p])

\* A Cubics processor with cross-product wind has been accepted and drawn,
\* and a Cubics processor with instance-data wind has been rejected.
C13_Witness ==
    /\ procs[1].fRenderPass = "Cubics" /\ procs[1].fWindMethod = "CrossProduct"
    /\ procs[1].pc = "drawn"
    /\ procs[2].fRenderPass = "Cubics" /\ procs[2].fWindMethod = "InstanceData"
    /\ procs[2].pc = "assertFailed"

\* C14: after initVS of any render pass, the primitive type is triangle strip
\* with primitive restart enabled iff the provider's caps report primitive
\* restart, and plain triangles otherwise; the index data asked for and
\* fNumIndicesPerInstance are those of the strip table in the first case and
\* of the list table in the second (triangle tables for Triangles, curve
\* tables for Quadratics and Cubics); a processor is never stopped for
\* lacking the capability; and the mesh of appendVSMesh draws
\* fNumIndicesPerInstance indices with that primitive type.
C14_CapabilityFallback ==
    \A p \in Procs :
        LET fallback(me, restart, triangles) ==
               /\ me.pc = "assertFailed" => ~AttribAssertHolds(me)
               /\ Accepted(p) =>
                     /\ me.fPrimitiveType =
                            (IF restart THEN "kTriangleStrip" ELSE "kTriangles")
                     /\ me.willUsePrimitiveRestart = restart
                     /\ me.fNumIndicesPerInstance =
                            (IF triangles
                             THEN (IF restart THEN Len(kTriangleIndicesAsStrips)
                                   ELSE Len(kTriangleIndicesAsTris))
                             ELSE (IF restart THEN Len(kHull4AndEdgeIndicesAsStrips)
                                   ELSE Len(kHull4AndEdgeIndicesAsTris)))
                     /\ \E r \in requests :
                           /\ r.rp = me.rp /\ r.type = "kIndex_GrBufferType"
                           /\ r.data = (IF triangles
                                        THEN (IF restart THEN "kTriangleIndicesAsStrips"
                                              ELSE "kTriangleIndicesAsTris")
                                        ELSE (IF restart THEN "kHull4AndEdgeIndicesAsStrips"
                                              ELSE "kHull4AndEdgeIndicesAsTris"))
                           /\ Len(TableOf(r.data)) = me.fNumIndicesPerInstance
               /\ me.pc = "drawn" =>
                     /\ Len(me.mesh) = 1
                     /\ me.mesh[1].indexCount = me.fNumIndicesPerInstance
                     /\ me.mesh[1].primitiveType = me.fPrimitiveType
                     /\ me.mesh[1].indexBuffer = me.fIndexBuffer
        IN fallback(procs[p], UsePrimitiveRestart(procs[p].rp),
                    procs[p].fRenderPass = "Triangles")

\* A Triangles processor on a provider without primitive restart has drawn a
\* triangle list of 75 indices, and a Quadratics processor on a provider
\* with primitive restart a strip of 22.
C14_Witness ==
    /\ procs[1].fRenderPass = "Triangles" /\ procs[1].rp = "rpNoRestart"
    /\ procs[1].pc = "drawn"
    /\ procs[1].mesh[1].primitiveType = "kTriangles"
    /\ procs[1].mesh[1].indexCount = 75
    /\ ~procs[1].willUsePrimitiveRestart
    /\ procs[2].fRenderPass = "Quadratics" /\ procs[2].rp = "rpRestart"
    /\ procs[2].pc = "drawn"
    /\ procs[2].mesh[1].primitiveType = "kTriangleStrip"
    /\ procs[2].mesh[1].indexCount = 22
    /\ procs[2].willUsePrimitiveRestart

\* A corner record of the triangle pass has run, and "sign(bisect) ==
\* sign(leftbloat)" compared defined values (no neighbour on the corner).
VSCornerBox ==
    /\ VSDone /\ vs.renderPass = "Triangles" /\ VSIsCorner
    /\ vs.out.corner # vs.out.left /\ vs.out.corner # vs.out.right

\* sign(bisect) == sign(leftbloat), from the points of the outcome.
SignsAgree(corner, left, right, leftbloat) ==
    <<BisectSign(VSub(corner, right), VSub(corner, left), 1),
      BisectSign(VSub(corner, right), VSub(corner, left), 2)>> = VSign(leftbloat)

\* C15 as stated: when sign(bisect) = sign(leftbloat), the bloat direction
\* before the switch is leftbloat turned by the rotation of the switch,
\* (x, y) -> (-y, x).
C15_Original ==
    VSCornerBox =>
        LET turned(lb, agree) == agree => vs.out.bloatdir0 = <<0 - lb[2], lb[1]>>
        IN turned(vs.out.leftbloat,
                  SignsAgree(vs.out.corner, vs.out.left, vs.out.right, vs.out.leftbloat))

\* C15, amended: when sign(bisect) = sign(leftbloat), the bloat direction
\* before the switch is leftbloat turned by (x, y) -> (y, -x), the inverse of
\* the rotation (x, y) -> (-y, x) of the switch (three of its quarter turns,
\* never one); when the signs differ it is leftbloat.
C15_BoxPreRotation ==
    VSCornerBox =>
        LET turned(lb, agree) ==
               /\ vs.out.bloatdir0 = (IF agree THEN <<lb[2], 0 - lb[1]>> ELSE lb)
               /\ agree =>
                     /\ vs.out.bloatdir0 = RotateCWTimes(lb, 3)
                     /\ vs.out.bloatdir0 # RotateCWTimes(lb, 1)
                     /\ RotateCWTimes(vs.out.bloatdir0, 1) = lb
        IN turned(vs.out.leftbloat,
                  SignsAgree(vs.out.corner, vs.out.left, vs.out.right, vs.out.leftbloat))

\* A corner record has run whose bisector and leftbloat have the same signs.
C15_Witness ==
    /\ VSCornerBox
    /\ SignsAgree(vs.out.corner, vs.out.left, vs.out.right, vs.out.leftbloat)
    /\ vs.out.bloatdir0 # vs.out.leftbloat

\* C16: on every record of the bound vertex table the stored cornerId, left
\* and right ids lie in 0 .. N-1; with wind > 0 clockwise_indices is the
\* record, and otherwise mask - vertexdata is a non-negative word whose three
\* ids are N-1 minus the stored ones and whose bits 2..7 are the stored ones
\* complemented, nothing borrowed from one field by another; in both cases
\* the three point indices, the unmasked clockwise_indices >> 10 included,
\* lie in 0 .. N-1 and no point is read outside the hull points.
C16_IndicesInRange ==
    VSDone =>
        LET inRange(n, vd, ci, low) ==
               /\ {vd % 4, vd \div 1024, (vd \div 256) % 4} \subseteq 0 .. n - 1
               /\ ci >= 0
               /\ ci = (IF vs.wind > 0 THEN vd ELSE ClockwiseMasks[n] - vd)
               /\ ci = (vs.out.leftId * 1024) + (vs.out.rightId * 256)
                       + (IF vs.wind > 0 THEN low ELSE 252 - low)
                       + vs.out.cornerId
               /\ vs.out.leftId = ci \div 1024
               /\ {vs.out.cornerId, vs.out.leftId, vs.out.rightId} \subseteq 0 .. n - 1
               /\ ~vs.out.oob
               /\ vs.out.corner = vs.hullPts[vs.out.cornerId + 1]
               /\ vs.out.left = vs.hullPts[vs.out.leftId + 1]
               /\ vs.out.right = vs.hullPts[vs.out.rightId + 1]
        IN /\ Len(vs.hullPts) = NumSides(vs.renderPass)
           /\ inRange(NumSides(vs.renderPass), vs.vertexdata, vs.out.clockwise_indices,
                      (vs.vertexdata % 256) - (vs.vertexdata % 4))

\* A hull record of corner 0 of the 4-sided topology under a negative wind:
\* corner 3, left 0, right 2, all inside the 4 hull points.
C16_Witness ==
    /\ VSDone /\ vs.renderPass = "Cubics" /\ vs.wind < 0
    /\ vs.vertexdata = hull_vertex_data(0, 2, 4)
    /\ LeftIdOf(vs.vertexdata) = 3 /\ RightIdOf(vs.vertexdata) = 1
    /\ vs.out.cornerId = 3 /\ vs.out.leftId = 0 /\ vs.out.rightId = 2
    /\ ~vs.out.oob
    /\ vs.out.left = vs.hullPts[1]

\* A hull record of the triangle pass has run on a triangle of non-zero area
\* whose wind is the sign of its area.
VSHullOfTriangle ==
    /\ VSDone /\ vs.renderPass = "Triangles" /\ VSIsHull
    /\ AreaX2(vs.hullPts) # 0 /\ vs.wind = Sign(AreaX2(vs.hullPts))

====
